---- MODULE Spec2Model ----
(***************************************************************************)
(* Model of the event endpoints of frontend-v2/back_end/api/events.js:     *)
(* getAllEvents, createNewEvent, deleteEvent, updateEvent and              *)
(* getEventsBasedOnTime, over a realtime-database store that is addressed  *)
(* by collection path and record name.                                     *)
(*                                                                         *)
(* Strings that the code compares or parses (the Date child of a record    *)
(* and the "today" string of the time query) are sequences of UTF-16 code  *)
(* units, so that the store's lexicographic comparison and the Date        *)
(* constructor's chronological reading are two different computations.     *)
(* All instants lie in November 2026; an instant is a number of seconds    *)
(* since 2026-11-01T00:00:00Z.                                             *)
(***************************************************************************)
EXTENDS Integers, Sequences, FiniteSets, TLC

VARIABLES store, call

vars == <<store, call>>

(* ------------------------------ bounds -------------------------------- *)

\* Record names are Event1 .. Event<MaxEvents>.
MaxEvents == 3

\* The limit argument ranges over 0 .. MaxLimit.
MaxLimit == 2

Limits == 0 .. MaxLimit

(* ------------------------- strings as code units ----------------------- *)

Ord(c) ==
  CASE c = "+" -> 43
    [] c = "-" -> 45
    [] c = "." -> 46
    [] c = ":" -> 58
    [] c = "T" -> 84
    [] c = "Z" -> 90

Digit(d) == 48 + d

TwoDigits(n) == <<Digit(n \div 10), Digit(n % 10)>>

ThreeDigits(n) == <<Digit(n \div 100), Digit((n \div 10) % 10), Digit(n % 10)>>

\* "2026-11-"
YearMonth == <<Digit(2), Digit(0), Digit(2), Digit(6), Ord("-"), Digit(1), Digit(1), Ord("-")>>

\* JavaScript's and the store's string order: by code unit, a proper prefix first.
RECURSIVE StrLess(_, _)
StrLess(a, b) ==
  IF b = <<>> THEN FALSE
  ELSE IF a = <<>> THEN TRUE
  ELSE IF Head(a) # Head(b) THEN Head(a) < Head(b)
  ELSE StrLess(Tail(a), Tail(b))

StrLeq(a, b) == a = b \/ StrLess(a, b)

\* String.prototype.substring(from, to), zero-based, to exclusive.
Substring(s, from, to) == SubSeq(s, from + 1, to)

(* ------------------------------- dates --------------------------------- *)

\* A stored Date child in the format of the test data,
\* 'YYYY-MM-DDTHH:MM-07:00': local wall-clock time followed by its offset
\* from UTC. sign is "+" or "-".
DateString(day, hh, mm, sign, oh) ==
  YearMonth \o TwoDigits(day) \o <<Ord("T")>> \o TwoDigits(hh) \o <<Ord(":")>>
    \o TwoDigits(mm) \o <<Ord(sign)>> \o TwoDigits(oh) \o <<Ord(":")>> \o TwoDigits(0)

Num2(s, i) == (s[i] - 48) * 10 + (s[i + 1] - 48)

\* new Date(str) for a string of the format above: the instant, in seconds
\* since the start of the month, that the local time and its offset denote.
ParseDate(s) ==
  LET local == (((Num2(s, 9) - 1) * 24 + Num2(s, 12)) * 60 + Num2(s, 15)) * 60
      off   == (Num2(s, 18) * 60 + Num2(s, 21)) * 60
  IN  IF s[17] = Ord("-") THEN local + off ELSE local - off

\* The clock: an instant [sec, ms], sec in seconds since the start of the
\* month and ms the milliseconds within the second.
Clock(day, hh, mm, ss, ms) == [sec |-> (((day - 1) * 24 + hh) * 60 + mm) * 60 + ss, ms |-> ms]

\* Date.prototype.toISOString(): YYYY-MM-DDTHH:MM:SS.sssZ, in UTC.
ToISOString(now) ==
  LET day == now.sec \div 86400 + 1
      hh  == (now.sec \div 3600) % 24
      mm  == (now.sec \div 60) % 60
      ss  == now.sec % 60
  IN  YearMonth \o TwoDigits(day) \o <<Ord("T")>> \o TwoDigits(hh) \o <<Ord(":")>>
        \o TwoDigits(mm) \o <<Ord(":")>> \o TwoDigits(ss) \o <<Ord(".")>>
        \o ThreeDigits(now.ms) \o <<Ord("Z")>>

\* today: the ISO string without its last five characters.
Today(now) ==
  LET todayStr == ToISOString(now)
  IN  Substring(todayStr, 0, Len(todayStr) - 5)

\* The instant that today denotes: the clock truncated to whole seconds.
TodayInstant(now) == now.sec

(* -------------------------- JavaScript values --------------------------- *)

\* A value with its typeof tag; v is the value's text.
Undefined == [t |-> "undefined", v |-> ""]

Str(s) == [t |-> "string", v |-> s]

Num(s) == [t |-> "number", v |-> s]

Bool(b) == [t |-> "boolean", v |-> IF b THEN "true" ELSE "false"]

TypeOf(x) == x.t

\* !x
Falsy(x) ==
  \/ x.t = "undefined"
  \/ x.t = "string" /\ x.v = ""
  \/ x.t = "number" /\ x.v = "0"
  \/ x.t = "boolean" /\ x.v = "false"

\* What a call produced: a boolean, an array of records, the sentinel errObj,
\* the array of the sentinel's own values, or an exception that left the
\* function.
RetBool(b) == [kind |-> "boolean", b |-> b, items |-> <<>>]

RetArray(items) == [kind |-> "array", b |-> FALSE, items |-> items]

RetErrObj == [kind |-> "errObj", b |-> FALSE, items |-> <<>>]

RetErrValues == [kind |-> "errValues", b |-> FALSE, items |-> <<>>]

Thrown == [kind |-> "thrown", b |-> FALSE, items |-> <<>>]

(* ------------------------------ the store ------------------------------ *)

\* The collections the endpoints are used with: the production collection
\* and the collection of the tests.
Paths == {"Events", "Test/Events"}

KeyOf(n) == "Event" \o ToString(n)

Names == {KeyOf(n) : n \in 1 .. MaxEvents}

\* Position of a key in the store's key order.
KeyIndex(k) == CHOOSE n \in 1 .. MaxEvents : KeyOf(n) = k

\* A stored record, shaped as the records of the test collection. The
\* attendee count tells the records of one collection apart.
StoredEvent(n, date) ==
  [Attendees |-> n, Date |-> date, Description |-> "This is a dope event",
   Image |-> "blob", Location |-> "UW", Sponsor |-> "Google"]

\* The two records of the test collection, moved into the modelled month:
\* one event before and one after every modelled clock reading.
TestCollection ==
  (KeyOf(1) :> StoredEvent(1, DateString(1, 16, 0, "-", 7)))
    @@ (KeyOf(2) :> StoredEvent(2, DateString(3, 16, 0, "-", 7)))

\* Date strings of stored records: local time with a negative offset (the
\* test data's) or a positive one.
DateChoices ==
  { DateString(1, 16, 0, "-", 7),
    DateString(2, 16, 0, "-", 7),
    DateString(2, 20, 0, "-", 7),
    DateString(2, 22, 0, "+", 9),
    DateString(3, 16, 0, "-", 7) }

\* Clock readings of a call.
NowChoices == {Clock(2, 20, 0, 0, 500), Clock(2, 12, 0, 30, 0)}

\* Every collection of at most MaxEvents records with dates of DateChoices.
Collections ==
  UNION { { [k \in ks |-> StoredEvent(KeyIndex(k), f[k])] : f \in [ks -> DateChoices] }
          : ks \in SUBSET Names }

EmptyCollection == [k \in {} |-> StoredEvent(1, DateString(1, 16, 0, "-", 7))]

\* ref(database, path): a reference to a location.
Ref(path, name) == [path |-> path, name |-> name]

\* A DatabaseReference of the modular API has no get method: eventRef.get()
\* raises a TypeError.
RefHasGetMethod == FALSE

\* remove and update are used but not imported: evaluating them raises a
\* ReferenceError.
RemoveImported == FALSE

UpdateImported == FALSE

\* set(ref, value): the write is refused (an Error is thrown) when value is
\* undefined; otherwise the record at ref is replaced by value.
Set(st, r, value) ==
  IF ~value.defined
    THEN [threw |-> TRUE, store |-> st]
    ELSE [threw |-> FALSE,
          store |-> [st EXCEPT ![r.path] =
                       [k \in (DOMAIN st[r.path]) \cup {r.name} |->
                          IF k = r.name THEN value.props ELSE st[r.path][k]]]]

\* snapshot.val() of a set of children: null when there is none.
Val(coll, ks) ==
  IF ks = {} THEN [null |-> TRUE, obj |-> EmptyCollection]
  ELSE [null |-> FALSE, obj |-> [k \in ks |-> coll[k]]]

\* orderByChild("Date"): by the Date child as a string, then by key.
OrderByChildLess(coll, a, b) ==
  \/ StrLess(coll[a].Date, coll[b].Date)
  \/ coll[a].Date = coll[b].Date /\ KeyIndex(a) < KeyIndex(b)

\* startAt(today): the children whose Date is not less than today.
StartAt(coll, today) == {k \in DOMAIN coll : StrLeq(today, coll[k].Date)}

\* endAt(today): the children whose Date is not greater than today.
EndAt(coll, today) == {k \in DOMAIN coll : StrLeq(coll[k].Date, today)}

\* limitToFirst(n) / limitToLast(n) of an ordered set of children.
LimitToFirst(coll, ks, n) ==
  {k \in ks : Cardinality({j \in ks : OrderByChildLess(coll, j, k)}) < n}

LimitToLast(coll, ks, n) ==
  {k \in ks : Cardinality({j \in ks : OrderByChildLess(coll, k, j)}) < n}

\* The limit constraints accept positive integers only and throw otherwise.
ValidLimit(n) == n > 0

RECURSIVE KeysInOrder(_)
KeysInOrder(ks) ==
  IF ks = {} THEN <<>>
  ELSE LET k == CHOOSE x \in ks : \A y \in ks : KeyIndex(x) <= KeyIndex(y)
       IN  <<k>> \o KeysInOrder(ks \ {k})

\* Object.values(obj): the property values in property order, keys dropped.
ObjectValues(obj) ==
  LET keys == KeysInOrder(DOMAIN obj)
  IN  [i \in 1 .. Len(keys) |-> obj[keys[i]]]

\* The own property keys of a JavaScript array: its indices "0", "1", ...
ArrayKeys(items) == {ToString(i - 1) : i \in 1 .. Len(items)}

(* ---------------------------- getAllEvents ----------------------------- *)

\* getData(path) of utils.js: one read of the collection at path. It hands
\* back what the snapshot holds (null for an empty or absent collection), or
\* the sentinel errObj when the store cannot be reached.
GetData(path, storeOk, st) ==
  IF ~storeOk THEN [kind |-> "errObj", obj |-> EmptyCollection]
  ELSE LET snap == Val(st[path], DOMAIN st[path])
       IN  IF snap.null THEN [kind |-> "null", obj |-> EmptyCollection]
           ELSE [kind |-> "object", obj |-> snap.obj]

\* getAllEvents(test): Array.from(Object.values(data)), with no handler
\* around it. Object.values(null) raises a TypeError.
GetAllEvents(path, storeOk, st) ==
  LET data == GetData(path, storeOk, st)
  IN  [ret |-> CASE data.kind = "null" -> Thrown
                 [] data.kind = "errObj" -> RetErrValues
                 [] data.kind = "object" -> RetArray(ObjectValues(data.obj)),
       store |-> st]

(* --------------------------- createNewEvent ---------------------------- *)

RequiredParams ==
  <<"attendees", "date", "description", "imageURL", "location", "name", "sponser">>

\* The typeof that the type checks ask of each required parameter.
ParamType(p) == IF p = "attendees" THEN "number" ELSE "string"

\* The for loop over requiredParams: the first parameter the event lacks.
MissingParams(event) ==
  {i \in 1 .. Len(RequiredParams) : RequiredParams[i] \notin DOMAIN event.props}

\* The seven typeof checks.
TypeChecksPass(event) ==
  \A i \in 1 .. Len(RequiredParams) :
    TypeOf(event.props[RequiredParams[i]]) = ParamType(RequiredParams[i])

\* The catch block of createNewEvent.
CreateNewEventCatch(st) == [ret |-> RetBool(FALSE), store |-> st]

\* The second argument of set(...): the event is handed to ref, which takes
\* no third argument, so set receives no value.
SetArgument(event) == [defined |-> FALSE, props |-> event.props]

\* A variant whose type checks return true where the code returns false.
CreateNewEventLax(event, path, st) ==
  IF ~event.defined THEN CreateNewEventCatch(st)
  ELSE IF MissingParams(event) # {} THEN [ret |-> RetBool(FALSE), store |-> st]
  ELSE IF ~TypeChecksPass(event) THEN [ret |-> RetBool(TRUE), store |-> st]
  ELSE LET w == Set(st, Ref(path, event.props.name.v), SetArgument(event))
       IN  IF w.threw THEN CreateNewEventCatch(st)
           ELSE [ret |-> RetBool(TRUE), store |-> w.store]

\* createNewEvent(event, test). event.hasOwnProperty raises a TypeError on an
\* undefined event; everything is inside the try.
CreateNewEvent(event, path, st) ==
  IF ~event.defined THEN CreateNewEventCatch(st)
  ELSE IF MissingParams(event) # {} THEN [ret |-> RetBool(FALSE), store |-> st]
  ELSE IF ~TypeChecksPass(event) THEN [ret |-> RetBool(FALSE), store |-> st]
  ELSE LET w == Set(st, Ref(path, event.props.name.v), SetArgument(event))
       IN  IF w.threw THEN CreateNewEventCatch(st)
           ELSE [ret |-> RetBool(TRUE), store |-> w.store]

(* ----------------------------- deleteEvent ----------------------------- *)

\* snapshot.exists() of the record at a reference.
Exists(st, r) == r.name \in DOMAIN st[r.path]

\* remove(ref)
Remove(st, r) ==
  [st EXCEPT ![r.path] = [k \in (DOMAIN st[r.path]) \ {r.name} |-> st[r.path][k]]]

\* The catch block of deleteEvent.
DeleteEventCatch(st) == [ret |-> RetBool(FALSE), store |-> st]

\* deleteEvent(eventName, test)
DeleteEvent(eventName, path, st) ==
  IF Falsy(eventName) THEN [ret |-> RetBool(FALSE), store |-> st]
  ELSE IF TypeOf(eventName) # "string" THEN [ret |-> RetBool(FALSE), store |-> st]
  ELSE IF ~RefHasGetMethod THEN DeleteEventCatch(st)
  ELSE IF ~Exists(st, Ref(path, eventName.v)) THEN [ret |-> RetBool(FALSE), store |-> st]
  ELSE IF ~RemoveImported THEN DeleteEventCatch(st)
  ELSE [ret |-> RetBool(TRUE), store |-> Remove(st, Ref(path, eventName.v))]

(* ----------------------------- updateEvent ----------------------------- *)

ValidKeys == {"Attendees", "Date", "Description", "Image", "Location", "Name", "Sponsor"}

\* valueTypes[key]
ValueTypes(key) == IF key = "Attendees" THEN "number" ELSE "string"

\* update(ref, {[key]: value})
Update(st, r, key, value) ==
  [st EXCEPT ![r.path][r.name] =
     [f \in (DOMAIN @) \cup {key} |-> IF f = key THEN value ELSE @[f]]]

\* A catch block that reports success.
UpdateEventCatchTrue(st) == [ret |-> RetBool(TRUE), store |-> st]

\* The catch block of updateEvent.
UpdateEventCatch(st) == [ret |-> RetBool(FALSE), store |-> st]

\* updateEvent(eventName, key, value): always on the collection Events.
UpdateEvent(eventName, key, value, st) ==
  IF Falsy(eventName) \/ Falsy(key) \/ value = Undefined
    THEN [ret |-> RetBool(FALSE), store |-> st]
  ELSE IF ~RefHasGetMethod THEN UpdateEventCatch(st)
  ELSE IF ~Exists(st, Ref("Events", eventName.v)) THEN [ret |-> RetBool(FALSE), store |-> st]
  ELSE IF key.v \notin ValidKeys THEN [ret |-> RetBool(FALSE), store |-> st]
  ELSE IF TypeOf(value) # ValueTypes(key.v) THEN [ret |-> RetBool(FALSE), store |-> st]
  ELSE IF ~UpdateImported THEN UpdateEventCatch(st)
  ELSE [ret |-> RetBool(TRUE), store |-> Update(st, Ref("Events", eventName.v), key.v, value)]

(* ------------------------- getEventsBasedOnTime ------------------------ *)

\* limit = 4
DefaultLimit == 4

\* The comparator of values.sort: new Date(a.Date) - new Date(b.Date).
CompareDescending(a, b) == ParseDate(b.Date) - ParseDate(a.Date)

Compare(a, b) == ParseDate(a.Date) - ParseDate(b.Date)

\* Array.prototype.sort with the comparator: a stable sort.
RECURSIVE InsertSorted(_, _)
InsertSorted(sorted, x) ==
  IF sorted = <<>> THEN <<x>>
  ELSE LET last == sorted[Len(sorted)]
       IN  IF Compare(last, x) <= 0 THEN Append(sorted, x)
           ELSE Append(InsertSorted(SubSeq(sorted, 1, Len(sorted) - 1), x), last)

RECURSIVE Sort(_)
Sort(values) ==
  IF values = <<>> THEN <<>>
  ELSE InsertSorted(Sort(SubSeq(values, 1, Len(values) - 1)), values[Len(values)])

\* The two queries: orderByChild("Date") with startAt(today) and
\* limitToFirst(limit), or with endAt(today) and limitToLast(limit).
RestrictedQuery(coll, upcoming, today, limit) ==
  IF upcoming THEN LimitToFirst(coll, StartAt(coll, today), limit)
  ELSE LimitToLast(coll, EndAt(coll, today), limit)

\* A null snapshot answered with the sentinel.
EmptyResultAsError == RetErrObj

\* if (data === null) return [];
EmptyResult == RetArray(<<>>)

\* The catch block of getEventsBasedOnTime.
GetEventsCatch == RetErrObj

\* getEventsBasedOnTime(upcoming, limit, test), called at clock reading now.
\* storeOk says whether get(q) is answered or rejected.
GetEventsBasedOnTime(upcoming, limitArg, path, now, storeOk, st) ==
  IF upcoming = Undefined THEN [ret |-> RetErrObj, store |-> st]
  ELSE IF TypeOf(upcoming) # "boolean" THEN [ret |-> RetErrObj, store |-> st]
  ELSE
    LET today == Today(now)
        limit == IF limitArg.given THEN limitArg.n ELSE DefaultLimit
    IN  IF ~ValidLimit(limit) THEN [ret |-> GetEventsCatch, store |-> st]
        ELSE IF ~storeOk THEN [ret |-> GetEventsCatch, store |-> st]
        ELSE
          LET qRes == Val(st[path], RestrictedQuery(st[path], upcoming = Bool(TRUE), today, limit))
          IN  IF qRes.null THEN [ret |-> EmptyResult, store |-> st]
              ELSE LET values == ObjectValues(qRes.obj)
                   IN  [ret |-> RetArray(IF Len(values) > 1 THEN Sort(values) ELSE values),
                        store |-> st]

(* ------------------------------- inputs -------------------------------- *)

\* A well-formed event object for createNewEvent.
ValidEvent(n) ==
  [defined |-> TRUE,
   props |-> [attendees |-> Num("21"), date |-> Str("2026-11-03T16:00-07:00"),
              description |-> Str("This is an event in the future"),
              imageURL |-> Str("blob"), location |-> Str("UW?"),
              name |-> Str(KeyOf(n)), sponser |-> Str("Tettie")]]

WithoutParam(event, p) ==
  [defined |-> TRUE, props |-> [q \in (DOMAIN event.props) \ {p} |-> event.props[q]]]

WithWrongType(event, p) ==
  [defined |-> TRUE,
   props |-> [event.props EXCEPT ![p] = IF ParamType(p) = "number" THEN Str("many") ELSE Num("7")]]

UndefinedEvent == [defined |-> FALSE, props |-> <<>>]

EventArgs ==
  {UndefinedEvent}
    \cup {ValidEvent(n) : n \in 1 .. MaxEvents}
    \cup {WithoutParam(ValidEvent(1), RequiredParams[i]) : i \in 1 .. Len(RequiredParams)}
    \cup {WithWrongType(ValidEvent(1), RequiredParams[i]) : i \in 1 .. Len(RequiredParams)}

IsValidEvent(event) ==
  event.defined /\ MissingParams(event) = {} /\ TypeChecksPass(event)

EventNameArgs ==
  {Undefined, Str(""), Num("7"), Str("Nobody")} \cup {Str(KeyOf(n)) : n \in 1 .. MaxEvents}

KeyArgs == {Undefined, Str("Attendees"), Str("Date"), Str("attendees"), Str("Time")}

ValueArgs == {Undefined, Num("5"), Str("2026-11-03T16:00-07:00")}

UpcomingArgs == {Undefined, Bool(TRUE), Bool(FALSE), Str("true")}

LimitArgs == {[given |-> FALSE, n |-> 0]} \cup {[given |-> TRUE, n |-> l] : l \in Limits}

(* ----------------------------- the machine ----------------------------- *)

\* No call is in progress.
Idle == [op |-> "none"]

\* The test collection holds any collection of the bounds; the production
\* collection is empty or holds the two records of the test data.
Init ==
  /\ store \in {st \in [Paths -> Collections] : st["Events"] \in {EmptyCollection, TestCollection}}
  /\ call = Idle

GetAllEventsCall ==
  \E path \in Paths, storeOk \in BOOLEAN :
    LET out == GetAllEvents(path, storeOk, store)
    IN  /\ call = Idle
        /\ call' = [op |-> "getAllEvents", path |-> path, storeOk |-> storeOk,
                    before |-> store, ret |-> out.ret]
        /\ store' = out.store

CreateNewEventCall ==
  \E event \in EventArgs, path \in Paths :
    LET out == CreateNewEvent(event, path, store)
    IN  /\ call = Idle
        /\ call' = [op |-> "createNewEvent", event |-> event, path |-> path,
                    before |-> store, ret |-> out.ret]
        /\ store' = out.store

DeleteEventCall ==
  \E eventName \in EventNameArgs, path \in Paths :
    LET out == DeleteEvent(eventName, path, store)
    IN  /\ call = Idle
        /\ call' = [op |-> "deleteEvent", eventName |-> eventName, path |-> path,
                    before |-> store, ret |-> out.ret]
        /\ store' = out.store

UpdateEventCall ==
  \E eventName \in EventNameArgs, key \in KeyArgs, value \in ValueArgs :
    LET out == UpdateEvent(eventName, key, value, store)
    IN  /\ call = Idle
        /\ call' = [op |-> "updateEvent", eventName |-> eventName, key |-> key,
                    value |-> value, before |-> store, ret |-> out.ret]
        /\ store' = out.store

GetEventsBasedOnTimeCall ==
  \E upcoming \in UpcomingArgs, limitArg \in LimitArgs, path \in Paths,
     now \in NowChoices, storeOk \in BOOLEAN :
    LET out == GetEventsBasedOnTime(upcoming, limitArg, path, now, storeOk, store)
    IN  /\ call = Idle
        /\ call' = [op |-> "getEventsBasedOnTime", upcoming |-> upcoming,
                    limitArg |-> limitArg, path |-> path, now |-> now,
                    storeOk |-> storeOk, before |-> store, ret |-> out.ret]
        /\ store' = out.store

\* The caller's await ends: it takes the result, and the next call can be made.
Resume ==
  /\ call # Idle
  /\ call' = Idle
  /\ store' = store

Next ==
  \/ Resume
  \/ GetAllEventsCall
  \/ CreateNewEventCall
  \/ DeleteEventCall
  \/ UpdateEventCall
  \/ GetEventsBasedOnTimeCall

Spec == Init /\ [][Next]_vars

(* ------------------------------- claims -------------------------------- *)

IsTimeQuery == call.op = "getEventsBasedOnTime"

\* The limit a time query runs with.
EffectiveLimit == IF call.limitArg.given THEN call.limitArg.n ELSE DefaultLimit

\* A time query that returned a sequence of records.
ReturnedRecords == IsTimeQuery /\ call.ret.kind = "array"

\* An event object that lacks a required field or holds one of the wrong type.
Malformed(event) ==
  \/ \E i \in 1 .. Len(RequiredParams) : RequiredParams[i] \notin DOMAIN event.props
  \/ \E i \in 1 .. Len(RequiredParams) :
       event.props[RequiredParams[i]].t # ParamType(RequiredParams[i])

\* The stored records whose Date string is on the requested side of today.
MatchingKeys ==
  {k \in DOMAIN store[call.path] :
     IF call.upcoming = Bool(TRUE)
       THEN StrLeq(Today(call.now), store[call.path][k].Date)
       ELSE StrLeq(store[call.path][k].Date, Today(call.now))}

\* C1: createNewEvent of a well-formed event returns true, and a getAllEvents
\* made afterwards on the same path includes the event, stored under its name.
C1_CreateThenGetAll ==
  (call.op = "createNewEvent" /\ IsValidEvent(call.event)) =>
    /\ call.ret = RetBool(TRUE)
    /\ call.event.props.name.v \in DOMAIN store[call.path]
    /\ LET after == GetAllEvents(call.path, TRUE, store).ret
       IN  /\ after.kind = "array"
           /\ \E i \in 1 .. Len(after.items) :
                after.items[i] = store[call.path][call.event.props.name.v]

\* C2: createNewEvent of an event object that lacks a required field, or
\* holds one of the wrong type, returns false and leaves the store as it was.
C2_MalformedRejected ==
  (call.op = "createNewEvent" /\ call.event.defined /\ Malformed(call.event)) =>
    (call.ret = RetBool(FALSE) /\ store = call.before)

C2_Witness ==
  /\ call.op = "createNewEvent"
  /\ call.event.defined
  /\ "attendees" \in DOMAIN call.event.props
  /\ call.event.props.attendees.t = "string"
  /\ call.ret = RetBool(FALSE)
  /\ store = call.before

\* C3: a successful upcoming query returns at most limit records, none of
\* them dated before the call's now.
C3_UpcomingNotEarlier ==
  (ReturnedRecords /\ call.upcoming = Bool(TRUE)) =>
    /\ Len(call.ret.items) <= EffectiveLimit
    /\ \A i \in 1 .. Len(call.ret.items) :
         ParseDate(call.ret.items[i].Date) >= TodayInstant(call.now)

\* C4: a successful past query returns at most limit records, none of them
\* dated after the call's now.
C4_PastNotLater ==
  (ReturnedRecords /\ call.upcoming = Bool(FALSE)) =>
    /\ Len(call.ret.items) <= EffectiveLimit
    /\ \A i \in 1 .. Len(call.ret.items) :
         ParseDate(call.ret.items[i].Date) <= TodayInstant(call.now)

C6_AllKeyedByName ==
  (call.op = "getAllEvents" /\ call.storeOk /\ DOMAIN store[call.path] # {}) =>
    /\ call.ret.kind = "array"
    /\ \A k \in DOMAIN store[call.path] :
         \E i \in 1 .. Len(call.ret.items) : call.ret.items[i] = store[call.path][k]
    /\ ArrayKeys(call.ret.items) = DOMAIN store[call.path]

\* C7: no call ends with an exception leaving the function.
C7_NoExceptionEscapes == call.op # "none" => call.ret.kind # "thrown"

\* C8: updateEvent with a key outside the allow-list returns false and
\* changes no record, whether or not the named record exists.
C8_InvalidKeyRejected ==
  (call.op = "updateEvent" /\ (call.key.t # "string" \/ call.key.v \notin ValidKeys)) =>
    (call.ret = RetBool(FALSE) /\ store = call.before)

C8_Witness ==
  /\ call.op = "updateEvent"
  /\ call.eventName = Str("Event1")
  /\ "Event1" \in DOMAIN store["Events"]
  /\ call.key = Str("attendees")
  /\ call.value = Num("5")
  /\ call.ret = RetBool(FALSE)
  /\ store = call.before

\* The store was asked and answered: the direction is a boolean, the limit
\* is one the query accepts, and get(q) is not rejected.
QueryAnswered ==
  /\ call.upcoming.t = "boolean"
  /\ EffectiveLimit > 0
  /\ call.storeOk

C10_ClosestToNow ==
  (ReturnedRecords /\ call.upcoming.t = "boolean") =>
    LET coll == store[call.path]
        now == TodayInstant(call.now)
        Dist(k) == IF ParseDate(coll[k].Date) >= now
                     THEN ParseDate(coll[k].Date) - now
                     ELSE now - ParseDate(coll[k].Date)
        side == {k \in DOMAIN coll :
                   IF call.upcoming = Bool(TRUE) THEN ParseDate(coll[k].Date) >= now
                   ELSE ParseDate(coll[k].Date) <= now}
        returned == {k \in DOMAIN coll :
                       \E i \in 1 .. Len(call.ret.items) : call.ret.items[i] = coll[k]}
    IN  Cardinality(side) > EffectiveLimit =>
          \A o \in side \ returned : \A r \in returned : Dist(o) >= Dist(r)

====
